---- MODULE Spec2Model ----
(***************************************************************************)
(* Model of the Spot model object of sweet-spots (src/models/Spots.js):    *)
(* the addSpot creation saga with its compensation (checkSpot,             *)
(* removeIfInvalid), addReviewToSpot, deleteSpot and reportSpot, over the  *)
(* Spot, Review, Tag and User collections.                                 *)
(*                                                                         *)
(* Specification Spec runs the operations one after the other: every       *)
(* action is one whole call, from its entry to the callback.  What the     *)
(* collaborators (Reviews, Tags, Users) and the store answer is an input   *)
(* of the call: `fault` names the step of the call that fails, `delFail`   *)
(* the compensating deletes that fail.                                     *)
(***************************************************************************)
EXTENDS Integers, Sequences, FiniteSets, TLC

(***************************************************************************)
(* Bounds of the model.                                                    *)
(***************************************************************************)
MaxReviews == 2
MaxFaults == 1
MaxTitleLen == 3

(***************************************************************************)
(* Program constants.                                                      *)
(***************************************************************************)
BAD_REQUEST == 400
NOT_FOUND == 404
FORBIDDEN == 403
TITLE_LOWER_LIMIT == 3
TITLE_UPPER_LIMIT == 20
FLOOR_UPPER_LIMIT == 3
MILLISECONDS_IN_A_DAY == 86400000
DUPLICATE_KEY == 11000
REPORT_THRESHOLD_BASE == 10

(***************************************************************************)
(* JavaScript values.  A number is a fraction n/d; the other kinds are the *)
(* values the code's expressions can produce besides numbers.              *)
(***************************************************************************)
Num(n, d) == [k |-> "num", n |-> n, d |-> d]
NaN == [k |-> "nan", n |-> 0, d |-> 1]
Undefined == [k |-> "undefined", n |-> 0, d |-> 1]
JsString == [k |-> "string", n |-> 0, d |-> 1]
JsObject == [k |-> "object", n |-> 0, d |-> 1]

\* a + b where b is a number: numeric addition of two numbers; an object or
\* a string on the left is converted to a string and b is appended to it.
JsAdd(a, b) ==
  CASE a.k = "num" -> Num(a.n * b.d + b.n * a.d, a.d * b.d)
    [] a.k \in {"object", "string"} -> JsString
    [] OTHER -> NaN

\* a / len where len is a positive integer: the text of a document followed
\* by digits is not the text of a number, so a string divides to NaN.
JsDiv(a, len) == IF a.k = "num" THEN Num(a.n, a.d * len) ELSE NaN

\* a - b: NaN unless both are numbers.
JsSub(a, b) ==
  IF a.k = "num" /\ b.k = "num" THEN Num(a.n * b.d - b.n * a.d, a.d * b.d) ELSE NaN

\* a > b: false whenever an operand is NaN.
JsGt(a, b) == a.k = "num" /\ b.k = "num" /\ a.n * b.d > b.n * a.d

(***************************************************************************)
(* Identifiers.  The caller hands an id over as a hex string or as an      *)
(* ObjectId; a document read from the store carries ObjectId instances of  *)
(* its own.                                                                *)
(***************************************************************************)
Users == {"u1", "u2", "u3"}
NoUser == "u0"
UserIds == Users \cup {NoUser}
Creators == {"u1", NoUser}
Reporters == {"u2", "u3", NoUser}
IdForms == {"string", "ObjectId"}
CallerId(u, form) == [hex |-> u, form |-> form, inst |-> "caller"]
StoredId(u) == [hex |-> u, form |-> "ObjectId", inst |-> "store"]

\* JSON.stringify of an id: the quoted hex text for a string and for an
\* ObjectId alike.
JSONstringify(id) == <<"\"", id.hex, "\"">>

\* a === b: two strings are equal by content, two objects only when they
\* are the same instance.
StrictEquals(a, b) ==
  IF a.form = "string" /\ b.form = "string"
    THEN a.hex = b.hex
    ELSE a.form = b.form /\ a.inst = b.inst /\ a.inst # "store" /\ a.hex = b.hex

(***************************************************************************)
(* Titles and floors are sequences of character codes.                     *)
(***************************************************************************)
TitleAbc == <<65, 98, 99>>
TitleAb == <<65, 98>>
Titles == {TitleAbc, TitleAb}
FloorNull == [k |-> "null", s |-> <<>>]
FloorUndefined == [k |-> "undefined", s |-> <<>>]
FloorStr(s) == [k |-> "string", s |-> s]
Floors == {FloorNull, FloorStr(<<50, 98>>)}
DefaultFloor == <<49>>
TitleAbd == <<65, 98, 100>>
Location(lat, lng) == [latitude |-> lat, longitude |-> lng]
Locations == {Location(1, 1)}
Labels == {"cafe", "lab"}
Ratings == {2, 5}
ReviewRatings == {2}
Days == 0..2

\* /^[a-zA-z0-9\s\']+$/ : the classes a-z, A-z, 0-9, white space and '
TitleChar(c) ==
  \/ c \in 97..122
  \/ c \in 65..122
  \/ c \in 48..57
  \/ c \in {9, 10, 11, 12, 13, 32}
  \/ c = 39

\* /^[A-Z0-9]+$/
FloorChar(c) == c \in 65..90 \/ c \in 48..57

\* ^[...]+$ : one character or more, each of the class
titleMatches(s) == Len(s) >= 1 /\ \A i \in 1..Len(s) : TitleChar(s[i])
floorMatches(s) == Len(s) >= 1 /\ \A i \in 1..Len(s) : FloorChar(s[i])

\* the text a regular expression's test() sees for a floor that is not null
FloorText(floor) ==
  IF floor.k = "undefined" THEN <<117, 110, 100, 101, 102, 105, 110, 101, 100>> ELSE floor.s

validTitle(title) ==
  /\ titleMatches(title)
  /\ Len(title) >= TITLE_LOWER_LIMIT
  /\ Len(title) <= TITLE_UPPER_LIMIT

validFloor(floor) ==
  IF floor.k # "null"
    THEN floorMatches(FloorText(floor)) /\ Len(FloorText(floor)) <= FLOOR_UPPER_LIMIT
    ELSE TRUE

\* the error message of checkRep, or "null" when the spot is valid
checkRep(title, floor) ==
  IF ~validTitle(title) THEN "InvalidTitle"
  ELSE IF ~validFloor(floor) THEN "InvalidFloor"
  ELSE "null"

(***************************************************************************)
(* State.                                                                  *)
(***************************************************************************)
VARIABLES
  spots,        \* the Spot collection: a set of spot documents
  reviews,      \* the Review collection: a set of review documents
  tags,         \* the Tag collection: the labels of the tags that exist
  rep,          \* the User collection: each user's reputation
  nextSpotId,   \* the next id the store gives a spot
  nextReviewId, \* the next id the store gives a review
  ticks,        \* the clock, in days
  faults,       \* the calls so far that met a failing collaborator or store
  last,         \* the call that completed last, and what it returned
  calls         \* the addReviewToSpot calls in flight: where each one stands

vars == <<spots, reviews, tags, rep, nextSpotId, nextReviewId, ticks, faults, last, calls>>

Now == ticks * MILLISECONDS_IN_A_DAY

Idle == [op |-> "none"]

\* the calls of addReviewToSpot that may overlap, and a call not yet made
Calls == {"a", "b"}
NoCall ==
  [pc |-> "idle", spotId |-> 0, user |-> NoUser, rating |-> 0,
   spot |-> [id |-> 0, reviews |-> <<>>, rating |-> NaN],
   review |-> [id |-> 0, creator |-> NoUser, rating |-> 0],
   status |-> "none", cast |-> "none"]

SpotIds == {s.id : s \in spots}
ReviewIds == {r.id : r \in reviews}
SpotById(id) == CHOOSE s \in spots : s.id = id
ReviewById(id) == CHOOSE r \in reviews : r.id = id

Init ==
  /\ spots = {}
  /\ reviews = {}
  /\ tags = {"cafe"}
  /\ rep = [u \in Users |-> CASE u = "u1" -> 5 [] u = "u2" -> 6 [] OTHER -> 12]
  /\ nextSpotId = 1
  /\ nextReviewId = 1
  /\ ticks = 0
  /\ faults = 0
  /\ last = Idle
  /\ calls = [p \in Calls |-> NoCall]

(***************************************************************************)
(* What a callback receives.  An error the model classifies carries        *)
(* http_status; an unknown error carries a message only.                   *)
(***************************************************************************)
NoError == [ok |-> TRUE]
KnownError(msg, status) == [ok |-> FALSE, msg |-> msg, http_status |-> status]
UnknownError(msg) == [ok |-> FALSE, msg |-> msg]
HasStatus(err) == "http_status" \in DOMAIN err

Status(err) ==
  IF err.ok THEN "OK"
  ELSE IF ~HasStatus(err) THEN "Unknown"
  ELSE CASE err.http_status = BAD_REQUEST -> "BadRequest"
         [] err.http_status = NOT_FOUND -> "NotFound"
         [] err.http_status = FORBIDDEN -> "Forbidden"
         [] OTHER -> "Unknown"

\* errorHandler: a known error keeps its message and status, any other
\* error becomes the message of an error without status.
errorHandler(err) ==
  IF HasStatus(err) THEN KnownError(err.msg, err.http_status) ELSE UnknownError(err.msg)

(***************************************************************************)
(* The collaborators' contracts: Reviews, Tags and Users.                  *)
(***************************************************************************)
AddSpotFaults == {"none", "addReview", "getTag", "addTag", "addTagUnknown", "updateRep", "save"}
DelFails == SUBSET {"review", "tag"}

\* Reviews.addReview(creatorId, description, rating, cb)
ReviewsAddReview(creatorId, rating, fault) ==
  IF fault = "addReview"
    THEN [err |-> KnownError("invalid review", BAD_REQUEST)]
    ELSE [err |-> NoError,
          review |-> [id |-> nextReviewId, creator |-> creatorId.hex, rating |-> rating]]

\* Tags.getTagByLabel(label, cb)
TagsGetTagByLabel(label, fault) ==
  IF fault = "getTag" THEN [err |-> UnknownError("getTagByLabel failed")]
  ELSE IF label \in tags THEN [err |-> NoError, tag |-> [id |-> label, label |-> label]]
  ELSE [err |-> KnownError("no such tag", NOT_FOUND)]

\* Tags.addTag(label, false, cb)
TagsAddTag(label, fault) ==
  CASE fault = "addTag" -> [err |-> KnownError("invalid tag", BAD_REQUEST)]
    [] fault = "addTagUnknown" -> [err |-> UnknownError("addTag failed")]
    [] OTHER -> [err |-> NoError, tag |-> [id |-> label, label |-> label]]

\* Users.updateRep(userId, true, cb)
UsersUpdateRep(userId, fault) ==
  IF userId.hex \notin Users THEN [err |-> KnownError("no such user", NOT_FOUND)]
  ELSE IF fault = "updateRep" THEN [err |-> UnknownError("updateRep failed")]
  ELSE [err |-> NoError, rep |-> [rep EXCEPT ![userId.hex] = @ + 1]]

\* Users.findUserById(userId, cb)
UsersFindUserById(userId) ==
  IF userId.hex \notin Users THEN [err |-> KnownError("no such user", NOT_FOUND)]
  ELSE [err |-> NoError, user |-> [id |-> userId.hex, rep |-> rep[userId.hex]]]

(***************************************************************************)
(* The store's remove: a remove that fails leaves the document.            *)
(***************************************************************************)
reviewModelRemove(revs, reviewId, delFail) ==
  IF "review" \in delFail THEN revs ELSE {r \in revs : r.id # reviewId}

tagModelRemove(tgs, tagId, delFail) ==
  IF "tag" \in delFail THEN tgs ELSE tgs \ {tagId}

(***************************************************************************)
(* removeIfInvalid: removes the review, then the tag when this call        *)
(* created it; the errors of the removes are dropped and `error` is what   *)
(* the callback receives.                                                  *)
(***************************************************************************)
\* The store operations a compensation issues, in the order of their issue
\* and of the calls of their callbacks.
ReviewRemoveLog == <<"removeReview", "reviewRemoveReturned">>
TagRemoveLog == <<"removeTag", "tagRemoveReturned">>

\* variant: removes the tag whether or not this call created it
removeIfInvalidAnyTag(revs, tgs, reviewId, tagId, createdTag, error, delFail) ==
  [reviews |-> reviewModelRemove(revs, reviewId, delFail),
   tags |-> tagModelRemove(tgs, tagId, delFail),
   deletes |-> {"review", "tag"},
   log |-> ReviewRemoveLog \o TagRemoveLog,
   err |-> error]

\* variant: the tag is removed without waiting for the removal of the review
removeIfInvalidAtOnce(revs, tgs, reviewId, tagId, createdTag, error, delFail) ==
  [reviews |-> reviewModelRemove(revs, reviewId, delFail),
   tags |-> IF createdTag THEN tagModelRemove(tgs, tagId, delFail) ELSE tgs,
   deletes |-> IF createdTag THEN {"review", "tag"} ELSE {"review"},
   log |-> IF createdTag
             THEN <<"removeReview", "removeTag", "reviewRemoveReturned", "tagRemoveReturned">>
             ELSE ReviewRemoveLog,
   err |-> error]

\* variant: a removal that fails is reported in place of the error handed in
removeIfInvalidReporting(revs, tgs, reviewId, tagId, createdTag, error, delFail) ==
  [reviews |-> reviewModelRemove(revs, reviewId, delFail),
   tags |-> IF createdTag /\ "review" \notin delFail
              THEN tagModelRemove(tgs, tagId, delFail) ELSE tgs,
   deletes |-> IF createdTag THEN {"review", "tag"} ELSE {"review"},
   log |-> IF createdTag /\ "review" \notin delFail
             THEN ReviewRemoveLog \o TagRemoveLog ELSE ReviewRemoveLog,
   err |-> IF delFail # {} THEN UnknownError("remove failed") ELSE error]

removeIfInvalid(revs, tgs, reviewId, tagId, createdTag, error, delFail) ==
  [reviews |-> reviewModelRemove(revs, reviewId, delFail),
   tags |-> IF createdTag THEN tagModelRemove(tgs, tagId, delFail) ELSE tgs,
   deletes |-> IF createdTag THEN {"review", "tag"} ELSE {"review"},
   log |-> IF createdTag THEN ReviewRemoveLog \o TagRemoveLog ELSE ReviewRemoveLog,
   err |-> error]

(***************************************************************************)
(* checkSpot.                                                              *)
(***************************************************************************)
\* new spotModel({...}), with the schema's defaults
\* variant: the rating is left at zero instead of the seed review's rating
newSpotUnrated(title, creatorId, location, floor, tag, review) ==
  [id |-> nextSpotId,
   title |-> title,
   creator |-> creatorId.hex,
   location |-> location,
   floor |-> IF floor.k # "null" THEN floor.s ELSE DefaultFloor,
   tag |-> tag.id,
   reviews |-> <<review.id>>,
   rating |-> Num(0, 1),
   timestamp |-> Now,
   reports |-> <<>>]

newSpot(title, creatorId, location, floor, tag, review) ==
  [id |-> nextSpotId,
   title |-> title,
   creator |-> creatorId.hex,
   location |-> location,
   floor |-> IF floor.k # "null" THEN floor.s ELSE DefaultFloor,
   tag |-> tag.id,
   reviews |-> <<review.id>>,
   rating |-> Num(review.rating, 1),
   timestamp |-> Now,
   reports |-> <<>>]

\* spot.save(cb): the unique index on title answers a duplicate with error
\* code 11000; any other failure is an error without that code.
spotSave(spot, fault) ==
  IF \E s \in spots : s.title = spot.title THEN [failed |-> TRUE, code |-> DUPLICATE_KEY]
  ELSE IF fault = "save" THEN [failed |-> TRUE, code |-> 0]
  ELSE [failed |-> FALSE, code |-> 0]

\* variant: the reputation is incremented before the title and the floor
\* are validated
checkSpotRepFirst(title, creatorId, location, floor, tag, review, createdTag, revs, tgs, fault, delFail) ==
  LET isInvalid == checkRep(title, floor)
      spot == newSpot(title, creatorId, location, floor, tag, review)
      updated == UsersUpdateRep(creatorId, fault)
      saved == spotSave(spot, fault)
      undo(error) == removeIfInvalid(revs, tgs, review.id, tag.id, createdTag, error, delFail)
      out(u, r, sp, step, sid) ==
        [reviews |-> u.reviews, tags |-> u.tags, err |-> u.err, deletes |-> u.deletes,
         log |-> u.log, rep |-> r, spots |-> sp, step |-> step, spotId |-> sid]
  IN IF ~updated.err.ok
       THEN out(undo(errorHandler(updated.err)), rep, spots, "updateRep", 0)
     ELSE IF isInvalid # "null"
       THEN out(undo(KnownError(isInvalid, BAD_REQUEST)), updated.rep, spots, "checkRep", 0)
     ELSE IF saved.failed /\ saved.code = DUPLICATE_KEY
       THEN out(undo(KnownError("duplicate title", BAD_REQUEST)), updated.rep, spots, "duplicate", 0)
     ELSE IF saved.failed
       THEN out(undo(UnknownError("save failed")), updated.rep, spots, "save", 0)
     ELSE out([reviews |-> revs, tags |-> tgs, err |-> NoError, deletes |-> {}, log |-> <<>>],
              updated.rep, spots \cup {spot}, "none", spot.id)

\* the outcome of checkSpot: the collections afterwards and the error
checkSpot(title, creatorId, location, floor, tag, review, createdTag, revs, tgs, fault, delFail) ==
  LET isInvalid == checkRep(title, floor)
      spot == newSpot(title, creatorId, location, floor, tag, review)
      updated == UsersUpdateRep(creatorId, fault)
      saved == spotSave(spot, fault)
      undo(error) == removeIfInvalid(revs, tgs, review.id, tag.id, createdTag, error, delFail)
      out(u, r, sp, step, sid) ==
        [reviews |-> u.reviews, tags |-> u.tags, err |-> u.err, deletes |-> u.deletes,
         log |-> u.log, rep |-> r, spots |-> sp, step |-> step, spotId |-> sid]
  IN IF isInvalid # "null"
       THEN out(undo(KnownError(isInvalid, BAD_REQUEST)), rep, spots, "checkRep", 0)
     ELSE IF ~updated.err.ok
       THEN out(undo(errorHandler(updated.err)), rep, spots, "updateRep", 0)
     ELSE IF saved.failed /\ saved.code = DUPLICATE_KEY
       THEN out(undo(KnownError("duplicate title", BAD_REQUEST)), updated.rep, spots, "duplicate", 0)
     ELSE IF saved.failed
       THEN out(undo(UnknownError("save failed")), updated.rep, spots, "save", 0)
     ELSE out([reviews |-> revs, tags |-> tgs, err |-> NoError, deletes |-> {}, log |-> <<>>],
              updated.rep, spots \cup {spot}, "none", spot.id)

(***************************************************************************)
(* addSpot: the creation saga.  The outcome of a whole call.               *)
(***************************************************************************)
\* the tag could not be created: the review is removed, the error of
\* Tags.addTag is handed on
\* variant: the error is handed on without removing the review
addTagFailedKeepReview(revs, reviewId, err, delFail) ==
  [reviews |-> revs,
   err |-> IF HasStatus(err) THEN KnownError(err.msg, err.http_status) ELSE UnknownError(err.msg)]

addTagFailed(revs, reviewId, err, delFail) ==
  [reviews |-> reviewModelRemove(revs, reviewId, delFail),
   err |-> IF HasStatus(err) THEN KnownError(err.msg, err.http_status) ELSE UnknownError(err.msg)]

addSpot(title, creatorId, location, floor, label, rating, fault, delFail) ==
  LET added == ReviewsAddReview(creatorId, rating, fault)
      review == added.review
      revs == reviews \cup {review}
      found == TagsGetTagByLabel(label, fault)
      newTag == TagsAddTag(label, fault)
      early(r, e, step, rid, created) ==
        [reviews |-> r, tags |-> tags, rep |-> rep, spots |-> spots, err |-> e,
         step |-> step, spotId |-> 0, reviewId |-> rid, createdTag |-> created,
         deletes |-> IF rid # 0 THEN {"review"} ELSE {},
         log |-> IF rid # 0 THEN ReviewRemoveLog ELSE <<>>]
      late(c, created) ==
        [reviews |-> c.reviews, tags |-> c.tags, rep |-> c.rep, spots |-> c.spots,
         err |-> c.err, step |-> c.step, spotId |-> c.spotId,
         reviewId |-> review.id, createdTag |-> created, deletes |-> c.deletes,
         log |-> c.log]
  IN IF ~added.err.ok
       THEN early(reviews, errorHandler(added.err), "addReview", 0, FALSE)
     ELSE IF ~found.err.ok /\ HasStatus(found.err)
       THEN IF ~newTag.err.ok
              THEN LET f == addTagFailed(revs, review.id, newTag.err, delFail)
                   IN early(f.reviews, f.err, "addTag", review.id, TRUE)
              ELSE late(checkSpot(title, creatorId, location, floor, newTag.tag, review, TRUE,
                                  revs, tags \cup {newTag.tag.id}, fault, delFail), TRUE)
     ELSE IF ~found.err.ok
       THEN early(reviewModelRemove(revs, review.id, delFail), UnknownError(found.err.msg),
                  "getTag", review.id, FALSE)
     ELSE late(checkSpot(title, creatorId, location, floor, found.tag, review, FALSE,
                         revs, tags, fault, delFail), FALSE)

\* the compensating deletes a call's environment can fail: those it issues
DelFailsOf(o) == SUBSET o.deletes

\* a call that meets a failing collaborator or store counts as a fault
Faulty(fault, delFail) == fault # "none" \/ delFail # {}
CountFault(fault, delFail) ==
  /\ Faulty(fault, delFail) => faults < MaxFaults
  /\ faults' = IF Faulty(fault, delFail) THEN faults + 1 ELSE faults

AddSpotIn(faultSet, titles, locations, floors, ratings) ==
  /\ nextReviewId <= MaxReviews
  /\ \E title \in titles, u \in Creators, location \in locations, floor \in floors,
        label \in Labels, rating \in ratings, fault \in faultSet :
       \E delFail \in IF faultSet = {"none"} THEN {{}}
                      ELSE DelFailsOf(addSpot(title, CallerId(u, "string"), location, floor,
                                              label, rating, fault, {})) :
         \E o \in {addSpot(title, CallerId(u, "string"), location, floor, label, rating,
                            fault, delFail)} :
           /\ CountFault(fault, delFail)
           /\ spots' = o.spots
           /\ reviews' = o.reviews
           /\ tags' = o.tags
           /\ rep' = o.rep
           /\ nextSpotId' = IF o.spotId # 0 THEN nextSpotId + 1 ELSE nextSpotId
           /\ nextReviewId' = IF o.reviewId # 0 THEN nextReviewId + 1 ELSE nextReviewId
           /\ last' = [op |-> "addSpot", status |-> Status(o.err), step |-> o.step,
                       reviewId |-> o.reviewId, spotId |-> o.spotId,
                       createdTag |-> o.createdTag,
                       tagId |-> IF o.createdTag THEN label ELSE "none",
                       delFail |-> delFail,
                       msg |-> IF o.err.ok THEN "none" ELSE o.err.msg,
                       log |-> o.log,
                       persisted |-> o.spots # spots,
                       repChanged |-> o.rep # rep,
                       tagsKept |-> tags \subseteq o.tags]
  /\ UNCHANGED <<ticks, calls>>

\* a call whose collaborators and store all answer
AddSpot == AddSpotIn({"none"}, Titles, Locations, Floors, Ratings)

\* a call in which a collaborator, the store or a compensating delete may fail
AddSpotFaulty == AddSpotIn(AddSpotFaults, Titles, Locations, Floors, ReviewRatings)

(***************************************************************************)
(* getSpotById: the spot with its reviews populated, each review with its  *)
(* creator; a review id without a document is left out by populate.        *)
(***************************************************************************)
populate(spot) ==
  LET ids == SelectSeq(spot.reviews, LAMBDA id : id \in ReviewIds)
  IN [spot EXCEPT !.reviews = [i \in 1..Len(ids) |-> ReviewById(ids[i])]]

getSpotById(spotId) ==
  IF spotId \in SpotIds
    THEN [err |-> NoError, spot |-> populate(SpotById(spotId))]
    ELSE [err |-> KnownError("No such spot with that id!", NOT_FOUND)]

\* spotModel.update / spot.save / spotModel.remove on one document
ReplaceSpot(spot) == {s \in spots : s.id # spot.id} \cup {spot}
RemoveSpot(spotId) == {s \in spots : s.id # spotId}

(***************************************************************************)
(* addReviewToSpot.                                                        *)
(***************************************************************************)
\* reviews.filter(...): the reviews whose creator's id has the JSON text of
\* creatorId
\* variant: the review's populated creator document is compared, not its id
currentReviewsByDocument(spot, creatorId) ==
  SelectSeq(spot.reviews, LAMBDA r : <<"{", r.creator, "}">> = JSONstringify(creatorId))

currentReviews(spot, creatorId) ==
  SelectSeq(spot.reviews,
            LAMBDA r : JSONstringify(StoredId(r.creator)) = JSONstringify(creatorId))

\* variant: the authors are compared with === instead of by their JSON text
alreadyReviewedStrict(spot, creatorId) ==
  \/ \E i \in 1..Len(spot.reviews) : StrictEquals(StoredId(spot.reviews[i].creator), creatorId)
  \/ StrictEquals(StoredId(spot.creator), creatorId)

alreadyReviewed(spot, creatorId) ==
  \/ Len(currentReviews(spot, creatorId)) # 0
  \/ StrictEquals(StoredId(spot.creator), creatorId)

\* array.reduce(callback) without an initial value: the accumulator starts
\* as the first element, a review document, and the callback runs from the
\* second element on with  total += oldReview.rating
RECURSIVE reduceFrom(_, _, _)
reduceFrom(total, revs, i) ==
  IF i > Len(revs) THEN total
  ELSE reduceFrom(JsAdd(total, Num(revs[i].rating, 1)), revs, i + 1)

totalRating(revs) == reduceFrom(JsObject, revs, 2)

\* spot.rating = totalRating / reviews.length
averageRating(revs) == JsDiv(totalRating(revs), Len(revs))

\* What the document and the store do with a rating that is not a number,
\* for a path the schema declares a Number: the value is stored as it is;
\* or the assignment is dropped and the document keeps its former rating;
\* or the update refuses the value and fails.
NumberCasts == {"stored", "dropped", "refused"}

\* spot.rating = value
setRating(old, value, cast) ==
  IF value.k = "num" \/ cast # "dropped" THEN value ELSE old

\* spotModel.update(..., {rating}) fails on a value it refuses
updateRefuses(value, cast) == value.k # "num" /\ cast = "refused"

\* variant: the review is removed again when the update of the spot fails
addReviewToSpotUndoing(spotId, creatorId, rating, fault, cast) ==
  LET got == getSpotById(spotId)
      spot == got.spot
      added == ReviewsAddReview(creatorId, rating, fault)
      revs == Append(spot.reviews, added.review)
      reviewsIds == [i \in 1..Len(revs) |-> revs[i].id]
      updated == [SpotById(spotId) EXCEPT !.reviews = reviewsIds,
                                         !.rating = setRating(spot.rating, averageRating(revs),
                                                              cast)]
      out(e, sp, rv, rid, rt, step) ==
        [err |-> e, spots |-> sp, reviews |-> rv, reviewId |-> rid, rating |-> rt,
         step |-> step]
  IN IF ~got.err.ok
       THEN out(errorHandler(got.err), spots, reviews, 0, NaN, "getSpotById")
     ELSE IF alreadyReviewed(spot, creatorId)
       THEN out(KnownError("You already submitted a review for this spot!", FORBIDDEN),
                spots, reviews, 0, NaN, "alreadyReviewed")
     ELSE IF ~added.err.ok
       THEN out(errorHandler(added.err), spots, reviews, 0, NaN, "addReview")
     ELSE IF fault = "update" \/ updateRefuses(updated.rating, cast)
       THEN out(UnknownError("update failed"), spots, reviews,
                added.review.id, updated.rating, "update")
     ELSE out(NoError, ReplaceSpot(updated), reviews \cup {added.review},
              added.review.id, updated.rating, "none")

addReviewToSpot(spotId, creatorId, rating, fault, cast) ==
  LET got == getSpotById(spotId)
      spot == got.spot
      added == ReviewsAddReview(creatorId, rating, fault)
      revs == Append(spot.reviews, added.review)
      reviewsIds == [i \in 1..Len(revs) |-> revs[i].id]
      updated == [SpotById(spotId) EXCEPT !.reviews = reviewsIds,
                                         !.rating = setRating(spot.rating, averageRating(revs),
                                                              cast)]
      out(e, sp, rv, rid, rt, step) ==
        [err |-> e, spots |-> sp, reviews |-> rv, reviewId |-> rid, rating |-> rt,
         step |-> step]
  IN IF ~got.err.ok
       THEN out(errorHandler(got.err), spots, reviews, 0, NaN, "getSpotById")
     ELSE IF alreadyReviewed(spot, creatorId)
       THEN out(KnownError("You already submitted a review for this spot!", FORBIDDEN),
                spots, reviews, 0, NaN, "alreadyReviewed")
     ELSE IF ~added.err.ok
       THEN out(errorHandler(added.err), spots, reviews, 0, NaN, "addReview")
     ELSE IF fault = "update" \/ updateRefuses(updated.rating, cast)
       THEN out(UnknownError("update failed"), spots, reviews \cup {added.review},
                added.review.id, updated.rating, "update")
     ELSE out(NoError, ReplaceSpot(updated), reviews \cup {added.review},
              added.review.id, updated.rating, "none")

AddReviewFaults == {"none", "addReview", "update"}

\* the spot ids a caller can name: those in use and one that is not
CallSpotIds == SpotIds \cup {nextSpotId}

AddReviewToSpotIn(faultSet) ==
  /\ \E spotId \in CallSpotIds, u \in Users, form \in IdForms, rating \in ReviewRatings,
        fault \in faultSet :
       \E cast \in IF fault = "none" THEN NumberCasts ELSE {"stored"} :
         \E o \in {addReviewToSpot(spotId, CallerId(u, form), rating, fault, cast)} :
           /\ o.reviewId # 0 => nextReviewId <= MaxReviews
           /\ CountFault(fault, {})
           /\ spots' = o.spots
           /\ reviews' = o.reviews
           /\ nextReviewId' = IF o.reviewId # 0 THEN nextReviewId + 1 ELSE nextReviewId
           /\ last' = [op |-> "addReviewToSpot", status |-> Status(o.err), step |-> o.step,
                       spotId |-> spotId, user |-> u, reviewId |-> o.reviewId,
                       rating |-> o.rating]
  /\ UNCHANGED <<tags, rep, nextSpotId, ticks, calls>>

AddReviewToSpot == AddReviewToSpotIn({"none"})

AddReviewToSpotFaulty == AddReviewToSpotIn(AddReviewFaults)

(***************************************************************************)
(* deleteSpot.                                                             *)
(***************************************************************************)
\* spot.timestamp.createdAt: timestamp is a Date, which has no such property
createdAt(timestamp) == Undefined

\* Date.now() - spot.timestamp.createdAt > MILLISECONDS_IN_A_DAY
tooOld(spot) ==
  JsGt(JsSub(Num(Now, 1), createdAt(spot.timestamp)), Num(MILLISECONDS_IN_A_DAY, 1))

\* variant: the caller is not compared with the creator
deleteSpotAnyUser(spotId, userId) ==
  LET got == getSpotById(spotId)
      spot == got.spot
  IN IF ~got.err.ok
       THEN [err |-> errorHandler(got.err), spots |-> spots, step |-> "getSpotById"]
     ELSE IF tooOld(spot)
       THEN [err |-> KnownError("It has been more than 24 hours since this spot was created!",
                                FORBIDDEN),
             spots |-> spots, step |-> "tooOld"]
     ELSE [err |-> NoError, spots |-> RemoveSpot(spotId), step |-> "none"]

deleteSpot(spotId, userId) ==
  LET got == getSpotById(spotId)
      spot == got.spot
  IN IF ~got.err.ok
       THEN [err |-> errorHandler(got.err), spots |-> spots, step |-> "getSpotById"]
     ELSE IF JSONstringify(StoredId(spot.creator)) # JSONstringify(userId)
       THEN [err |-> KnownError("You do not have access to delete this spot!", FORBIDDEN),
             spots |-> spots, step |-> "creator"]
     ELSE IF tooOld(spot)
       THEN [err |-> KnownError("It has been more than 24 hours since this spot was created!",
                                FORBIDDEN),
             spots |-> spots, step |-> "tooOld"]
     ELSE [err |-> NoError, spots |-> RemoveSpot(spotId), step |-> "none"]

\* variant: the reviews the spot lists are removed with the spot
DeleteSpotCascading ==
  /\ \E spotId \in CallSpotIds, u \in UserIds, form \in IdForms :
       \E o \in {deleteSpot(spotId, CallerId(u, form))} :
         /\ spots' = o.spots
         /\ reviews' = IF o.step = "none"
                         THEN {r \in reviews :
                                 \A i \in 1..Len(SpotById(spotId).reviews) :
                                   SpotById(spotId).reviews[i] # r.id}
                         ELSE reviews
         /\ last' = [op |-> "deleteSpot", status |-> Status(o.err), step |-> o.step,
                     spotId |-> spotId,
                     elapsed |-> IF o.step \in {"none", "tooOld"}
                                   THEN Now - SpotById(spotId).timestamp ELSE 0]
  /\ UNCHANGED <<tags, rep, nextSpotId, nextReviewId, ticks, faults, calls>>

DeleteSpot ==
  /\ \E spotId \in CallSpotIds, u \in UserIds, form \in IdForms :
       \E o \in {deleteSpot(spotId, CallerId(u, form))} :
         /\ spots' = o.spots
         /\ last' = [op |-> "deleteSpot", status |-> Status(o.err), step |-> o.step,
                     spotId |-> spotId,
                     elapsed |-> IF o.step \in {"none", "tooOld"}
                                   THEN Now - SpotById(spotId).timestamp ELSE 0]
  /\ UNCHANGED <<reviews, tags, rep, nextSpotId, nextReviewId, ticks, faults, calls>>

(***************************************************************************)
(* reportSpot.                                                             *)
(***************************************************************************)
RECURSIVE sumScores(_, _)
\* reports.reduce(function(total, report) {...}, 0)
sumScores(reports, i) ==
  IF i > Len(reports) THEN 0 ELSE reports[i].reporterScore + sumScores(reports, i + 1)

\* variant: the reporters are compared with === instead of by their JSON text
hasReportedStrict(reports, userId) ==
  \E i \in 1..Len(reports) : StrictEquals(StoredId(reports[i].reporter), userId)

hasReported(reports, userId) ==
  \E i \in 1..Len(reports) :
    JSONstringify(StoredId(reports[i].reporter)) = JSONstringify(userId)

\* variant: >= in place of >
overThresholdInclusive(reportScore, numReviews) ==
  reportScore >= REPORT_THRESHOLD_BASE + numReviews

\* reportScore > (10 + numReviews)
overThreshold(reportScore, numReviews) == reportScore > REPORT_THRESHOLD_BASE + numReviews

\* variant: the report is recorded whatever the score
reportSpotKeep(spotId, userId) ==
  LET got == getSpotById(spotId)
      spot == got.spot
      found == UsersFindUserById(userId)
      reported == [SpotById(spotId) EXCEPT !.reports =
                     Append(@, [reporter |-> userId.hex, reporterScore |-> found.user.rep])]
  IN IF ~got.err.ok
       THEN [err |-> errorHandler(got.err), spots |-> spots, step |-> "getSpotById"]
     ELSE IF ~found.err.ok
       THEN [err |-> errorHandler(found.err), spots |-> spots, step |-> "findUserById"]
     ELSE IF hasReported(spot.reports, userId)
       THEN [err |-> KnownError("You have already reported this spot!", FORBIDDEN),
             spots |-> spots, step |-> "hasReported"]
     ELSE [err |-> NoError, spots |-> ReplaceSpot(reported), step |-> "reported"]

reportSpot(spotId, userId) ==
  LET got == getSpotById(spotId)
      spot == got.spot
      found == UsersFindUserById(userId)
      reportScore == sumScores(spot.reports, 1) + found.user.rep
      numReviews == Len(spot.reviews)
      reported == [SpotById(spotId) EXCEPT !.reports =
                     Append(@, [reporter |-> userId.hex, reporterScore |-> found.user.rep])]
  IN IF ~got.err.ok
       THEN [err |-> errorHandler(got.err), spots |-> spots, step |-> "getSpotById"]
     ELSE IF ~found.err.ok
       THEN [err |-> errorHandler(found.err), spots |-> spots, step |-> "findUserById"]
     ELSE IF hasReported(spot.reports, userId)
       THEN [err |-> KnownError("You have already reported this spot!", FORBIDDEN),
             spots |-> spots, step |-> "hasReported"]
     ELSE IF overThreshold(reportScore, numReviews)
       THEN [err |-> NoError, spots |-> RemoveSpot(spotId), step |-> "removed"]
     ELSE [err |-> NoError, spots |-> ReplaceSpot(reported), step |-> "reported"]

ReportSpot ==
  /\ \E spotId \in CallSpotIds, u \in Reporters, form \in IdForms :
       \E o \in {reportSpot(spotId, CallerId(u, form))} :
         /\ spots' = o.spots
         /\ last' = [op |-> "reportSpot", status |-> Status(o.err), step |-> o.step,
                     spotId |-> spotId]
  /\ UNCHANGED <<reviews, tags, rep, nextSpotId, nextReviewId, ticks, faults, calls>>

\* a day passes; the clock is read only against the timestamp of a spot
Tick ==
  /\ spots # {}
  /\ ticks + 1 \in Days
  /\ ticks' = ticks + 1
  /\ last' = Idle
  /\ UNCHANGED <<spots, reviews, tags, rep, nextSpotId, nextReviewId, faults, calls>>

(***************************************************************************)
(* getSpotsByLocation.                                                     *)
(***************************************************************************)
\* .populate("tag")
populateTag(spot) ==
  [spot EXCEPT !.tag = IF @ \in tags THEN [id |-> @, label |-> @]
                                     ELSE [id |-> "null", label |-> "null"]]

\* variant: the bounds are included, $gte and $lte in place of $gt and $lt
getSpotsByLocationInclusive(minLatitude, maxLatitude, minLongitude, maxLongitude) ==
  {populateTag(populate(s)) :
     s \in {t \in spots : /\ t.location.latitude >= minLatitude
                          /\ t.location.latitude <= maxLatitude
                          /\ t.location.longitude >= minLongitude
                          /\ t.location.longitude <= maxLongitude}}

\* spotModel.find({"location.latitude": {$gt, $lt}, "location.longitude": {$gt, $lt}})
getSpotsByLocation(minLatitude, maxLatitude, minLongitude, maxLongitude) ==
  {populateTag(populate(s)) :
     s \in {t \in spots : /\ t.location.latitude > minLatitude
                          /\ t.location.latitude < maxLatitude
                          /\ t.location.longitude > minLongitude
                          /\ t.location.longitude < maxLongitude}}

\* the bounds a caller asks for
MinBounds == {0, 1}
MaxBounds == {1, 2}

GetSpotsByLocation ==
  /\ \E minLatitude \in MinBounds, maxLatitude \in MaxBounds,
        minLongitude \in MinBounds, maxLongitude \in MaxBounds :
       last' = [op |-> "getSpotsByLocation",
                minLatitude |-> minLatitude, maxLatitude |-> maxLatitude,
                minLongitude |-> minLongitude, maxLongitude |-> maxLongitude,
                found |-> {s.id : s \in getSpotsByLocation(minLatitude, maxLatitude,
                                                           minLongitude, maxLongitude)}]
  /\ UNCHANGED <<spots, reviews, tags, rep, nextSpotId, nextReviewId, ticks, faults, calls>>

\* addSpot with the titles, places and floors of the wider input sets
WideTitles == {TitleAbc, TitleAbd}
WideLocations == {Location(1, 1), Location(2, 1), Location(1, 2)}
WideFloors == {FloorNull, FloorUndefined, FloorStr(<<50, 66>>)}
AddSpotAnywhere == AddSpotIn({"none"}, WideTitles, WideLocations, WideFloors, ReviewRatings)

(***************************************************************************)
(* Spec: the four operations, one call after the other, with collaborators *)
(* and a store that answer every call.                                     *)
(***************************************************************************)
Next == AddSpot \/ AddReviewToSpot \/ DeleteSpot \/ ReportSpot \/ Tick

Spec == Init /\ [][Next]_vars

(***************************************************************************)
(* SpecFaults: the operations that call collaborators, in an environment   *)
(* where at most MaxFaults calls meet a failure; deleteSpot frees the      *)
(* title for another addSpot.                                              *)
(***************************************************************************)
NextFaults == AddSpotFaulty \/ AddReviewToSpotFaulty \/ DeleteSpot

SpecFaults == Init /\ [][NextFaults]_vars

(***************************************************************************)
(* SpecValidator: checkRep applied to titles and floors.  The titles are   *)
(* the texts of up to MaxTitleLen characters over TitleAlphabet (A z 0,    *)
(* space, apostrophe, _ [ and !) and two long titles of letters.           *)
(***************************************************************************)
TitleAlphabet == {65, 122, 48, 32, 39, 95, 91, 33}
LongLengths == {20, 21}
TitleInputs ==
  UNION {[1..k -> TitleAlphabet] : k \in 1..MaxTitleLen}
    \cup {[i \in 1..n |-> 65] : n \in LongLengths}
FloorInputs ==
  {FloorNull, FloorUndefined, FloorStr(<<>>), FloorStr(<<49>>), FloorStr(<<50, 66>>),
   FloorStr(<<50, 98>>), FloorStr(<<65, 49, 90>>), FloorStr(<<65, 66, 67, 68>>)}

\* the arguments of one call
InitValidator ==
  /\ spots = {}
  /\ reviews = {}
  /\ tags = {"cafe"}
  /\ rep = [u \in Users |-> CASE u = "u1" -> 5 [] u = "u2" -> 6 [] OTHER -> 12]
  /\ nextSpotId = 1
  /\ nextReviewId = 1
  /\ ticks = 0
  /\ faults = 0
  /\ calls = [p \in Calls |-> NoCall]
  /\ \E title \in TitleInputs, floor \in FloorInputs :
       last = [op |-> "arguments", title |-> title, floor |-> floor, result |-> "none"]

CheckRep ==
  /\ last.op = "arguments"
  /\ last' = [last EXCEPT !.op = "checkRep", !.result = checkRep(last.title, last.floor)]
  /\ UNCHANGED <<spots, reviews, tags, rep, nextSpotId, nextReviewId, ticks, faults, calls>>

NextValidator == CheckRep

SpecValidator == InitValidator /\ [][NextValidator]_vars

(***************************************************************************)
(* SpecPlaces: spots created at several places, with several floors, and   *)
(* the query by location.                                                  *)
(***************************************************************************)
NextPlaces == AddSpotAnywhere \/ GetSpotsByLocation

SpecPlaces == Init /\ [][NextPlaces]_vars

(***************************************************************************)
(* SpecOverlap: addReviewToSpot as the three callbacks it is made of, for   *)
(* the calls of Calls at once.  Each callback runs to its end before the    *)
(* next one starts; the callbacks of different calls interleave freely.     *)
(* The spot a call works on is the document its getSpotById read.           *)
(***************************************************************************)
OverlapUsers == {"u2", "u3"}

\* variant: the review is pushed onto the list the store holds at the update
spotUpdatePushing(spot, review, cast) ==
  LET revs == Append(spot.reviews, review)
      held == SpotById(spot.id).reviews
  IN [reviews |-> Append(held, review.id),
      rating |-> setRating(spot.rating, averageRating(revs), cast)]

\* what the update writes: the ids of the reviews the call read, then the
\* id of its own review, and the rating computed over these
spotUpdate(spot, review, cast) ==
  LET revs == Append(spot.reviews, review)
  IN [reviews |-> [i \in 1..Len(revs) |-> revs[i].id],
      rating |-> setRating(spot.rating, averageRating(revs), cast)]

CallDone(c, err) == [c EXCEPT !.pc = "done", !.status = Status(err)]

\* that.getSpotById(spotId, function(err, spot) ...) up to Reviews.addReview
AddReviewToSpotGet ==
  /\ \E p \in Calls, spotId \in CallSpotIds, u \in OverlapUsers, rating \in ReviewRatings :
       LET got == getSpotById(spotId)
           c == [NoCall EXCEPT !.spotId = spotId, !.user = u, !.rating = rating]
       IN /\ calls[p].pc = "idle"
          /\ calls' = [calls EXCEPT ![p] =
               IF ~got.err.ok
                 THEN CallDone(c, errorHandler(got.err))
               ELSE IF alreadyReviewed(got.spot, CallerId(u, "string"))
                 THEN CallDone(c, KnownError("You already submitted a review for this spot!",
                                             FORBIDDEN))
               ELSE [c EXCEPT !.pc = "checked", !.spot = got.spot]]
  /\ UNCHANGED <<spots, reviews, tags, rep, nextSpotId, nextReviewId, ticks, faults, last>>

\* Reviews.addReview(creatorId, description, rating, function(err, review) ...)
AddReviewToSpotAddReview ==
  /\ \E p \in Calls :
       LET c == calls[p]
           added == ReviewsAddReview(CallerId(c.user, "string"), c.rating, "none")
       IN /\ c.pc = "checked"
          /\ reviews' = reviews \cup {added.review}
          /\ nextReviewId' = nextReviewId + 1
          /\ calls' = [calls EXCEPT ![p] = [c EXCEPT !.pc = "added", !.review = added.review]]
  /\ UNCHANGED <<spots, tags, rep, nextSpotId, ticks, faults, last>>

\* spotModel.update({ _id: spot.id }, { reviews: reviewsIds, rating: spot.rating }, ...)
AddReviewToSpotUpdate ==
  /\ \E p \in Calls, cast \in NumberCasts :
       LET c == calls[p]
           written == spotUpdate(c.spot, c.review, cast)
       IN /\ c.pc = "added"
          /\ IF updateRefuses(written.rating, cast)
               THEN /\ spots' = spots
                    /\ calls' = [calls EXCEPT ![p] =
                                   [CallDone(c, UnknownError("update failed"))
                                      EXCEPT !.cast = cast]]
               ELSE /\ spots' = IF c.spotId \in SpotIds
                                  THEN ReplaceSpot([SpotById(c.spotId) EXCEPT
                                                      !.reviews = written.reviews,
                                                      !.rating = written.rating])
                                  ELSE spots
                    /\ calls' = [calls EXCEPT ![p] = [CallDone(c, NoError) EXCEPT !.cast = cast]]
  /\ UNCHANGED <<reviews, tags, rep, nextSpotId, nextReviewId, ticks, faults, last>>

\* addSpot with one title per spot id, so that the spots differ
AddSpotSeeded == AddSpotIn({"none"}, WideTitles, Locations, {FloorNull}, ReviewRatings)

NextOverlap ==
  AddSpotSeeded \/ AddReviewToSpotGet \/ AddReviewToSpotAddReview \/ AddReviewToSpotUpdate

SpecOverlap == Init /\ [][NextOverlap]_vars

(***************************************************************************)
(* SpecReports: reportSpot as the callbacks it is made of, for the calls of *)
(* Calls at once; a call that has ended may be made again.  The spot a call *)
(* decides on is the document its getSpotById read.                         *)
(***************************************************************************)
ReportUsers == {"u1", "u2", "u3"}

\* What spot.save() writes for a reports array that was pushed to: the push
\* alone, applied to the array the store holds; or the whole array as the
\* document has it; or the push, refused when the stored array is no longer
\* the one that was read, or when the document is no longer in the store.
SaveModes == {"push", "set", "versioned"}

ReportCall(pc, spotId, u, spot, userRep, step, status, mode) ==
  [pc |-> pc, spotId |-> spotId, user |-> u, spot |-> spot, rep |-> userRep,
   step |-> step, status |-> status, mode |-> mode]

\* { reporter: userId, reporterScore: user.rep }
reportEntry(c) == [reporter |-> c.user, reporterScore |-> c.rep]

\* variant: the save always writes the array as the document has it
reportsSavedAsRead(held, read, entry, mode) == Append(read, entry)

reportsSaved(held, read, entry, mode) ==
  IF mode = "set" THEN Append(read, entry) ELSE Append(held, entry)

saveRefuses(held, read, mode) == mode = "versioned" /\ held # read

\* a call that ended without a store call: what it read is of no more use
ReportRefused(c, step, status) ==
  ReportCall("done", c.spotId, c.user, NoCall.spot, 0, step, status, "none")

\* that.getSpotById(spotId, function(err, spot) ...)
ReportSpotGet ==
  /\ \E p \in Calls, spotId \in CallSpotIds, u \in ReportUsers :
       LET got == getSpotById(spotId)
           c == ReportCall("read", spotId, u, NoCall.spot, 0, "none", "none", "none")
       IN /\ calls[p].pc \in {"idle", "done"}
          /\ calls' = [calls EXCEPT ![p] =
               IF ~got.err.ok
                 THEN ReportRefused(c, "getSpotById", Status(errorHandler(got.err)))
                 ELSE ReportCall("read", spotId, u, got.spot, 0, "none", "none", "none")]
  /\ UNCHANGED <<spots, reviews, tags, rep, nextSpotId, nextReviewId, ticks, faults, last>>

\* Users.findUserById(userId, function(err, user) ...) up to the store call
ReportSpotFind ==
  /\ \E p \in Calls :
       LET c == calls[p]
           userId == CallerId(c.user, "string")
           found == UsersFindUserById(userId)
           reportScore == sumScores(c.spot.reports, 1) + found.user.rep
           numReviews == Len(c.spot.reviews)
       IN /\ c.pc = "read"
          /\ calls' = [calls EXCEPT ![p] =
               IF ~found.err.ok
                 THEN ReportRefused(c, "findUserById", Status(errorHandler(found.err)))
               ELSE IF hasReported(c.spot.reports, userId)
                 THEN ReportRefused(c, "hasReported", "Forbidden")
               ELSE ReportCall("decided", c.spotId, c.user, c.spot, found.user.rep,
                               IF overThreshold(reportScore, numReviews)
                                 THEN "removed" ELSE "reported",
                               "none", "none")]
  /\ UNCHANGED <<spots, reviews, tags, rep, nextSpotId, nextReviewId, ticks, faults, last>>

\* spotModel.remove({ _id: spotId }, ...), or spot.reports.push(...) and
\* spot.save(...); a remove or a save that finds no document changes nothing
ReportSpotWrite ==
  /\ \E p \in Calls, mode \in SaveModes :
       LET c == calls[p]
           ended(status, m) == [c EXCEPT !.pc = "done", !.status = status, !.mode = m]
       IN /\ c.pc = "decided"
          /\ IF c.step = "removed"
               THEN /\ spots' = RemoveSpot(c.spotId)
                    /\ calls' = [calls EXCEPT ![p] = ended("OK", "none")]
             ELSE IF c.spotId \notin SpotIds
               THEN /\ spots' = spots
                    /\ calls' = [calls EXCEPT ![p] =
                         ended(IF mode = "versioned" THEN "Unknown" ELSE "OK", "none")]
             ELSE IF saveRefuses(SpotById(c.spotId).reports, c.spot.reports, mode)
               THEN /\ spots' = spots
                    /\ calls' = [calls EXCEPT ![p] = ended("Unknown", mode)]
             ELSE /\ spots' = ReplaceSpot([SpotById(c.spotId) EXCEPT !.reports =
                                 reportsSaved(@, c.spot.reports, reportEntry(c), mode)])
                  /\ calls' = [calls EXCEPT ![p] = ended("OK", mode)]
  /\ UNCHANGED <<reviews, tags, rep, nextSpotId, nextReviewId, ticks, faults, last>>

\* the addSpot calls that persist a spot under a tag that exists, as many
\* as there are titles
AddSpotPersisted ==
  /\ nextSpotId <= Cardinality(WideTitles)
  /\ AddSpotSeeded
  /\ last'.persisted /\ ~last'.createdTag

NextReports == AddSpotPersisted \/ ReportSpotGet \/ ReportSpotFind \/ ReportSpotWrite

SpecReports == Init /\ [][NextReports]_vars

(***************************************************************************)
(* SpecSaga: addSpot as the chain of callbacks it is made of, for the calls *)
(* of Calls at once.  A call's pc names the collaborator or store call      *)
(* whose callback it awaits; `callbacks` counts the invocations of the      *)
(* caller's callback.  Every collaborator and store call may fail.          *)
(***************************************************************************)
NoTag == [id |-> "none", label |-> "none"]

SagaCall(title, u, floor, label, rating) ==
  [pc |-> "addReview", title |-> title, user |-> u, floor |-> floor, label |-> label,
   rating |-> rating, review |-> NoCall.review, tag |-> NoTag, createdTag |-> FALSE,
   error |-> NoError, callbacks |-> 0, status |-> "none"]

\* callback(err, newSpot): the caller's callback is invoked
Callback(c, err) ==
  [c EXCEPT !.pc = "done", !.error = err, !.status = Status(err), !.callbacks = @ + 1]

\* reviewModel.remove({ _id: review.id }, ...) is issued; `error` is kept
\* for its callback
RemoveReview(c, err, pc) == [c EXCEPT !.pc = pc, !.error = err]

\* variant: the callback is invoked only after a tag was removed
reviewRemovedSilent(c) ==
  IF c.pc = "removeIfInvalid" /\ c.createdTag
    THEN [c EXCEPT !.pc = "removeTag"]
    ELSE [c EXCEPT !.pc = "returned"]

\* the callback of reviewModel.remove: in removeIfInvalid the tag's remove
\* follows when this call created the tag; otherwise callback(error)
reviewRemoved(c) ==
  IF c.pc = "removeIfInvalid" /\ c.createdTag
    THEN [c EXCEPT !.pc = "removeTag"]
    ELSE Callback(c, c.error)

\* checkSpot up to Users.updateRep or removeIfInvalid
checkSpotEntered(c, tag, createdTag) ==
  LET isInvalid == checkRep(c.title, c.floor)
      d == [c EXCEPT !.tag = tag, !.createdTag = createdTag]
  IN IF isInvalid # "null"
       THEN RemoveReview(d, KnownError(isInvalid, BAD_REQUEST), "removeIfInvalid")
       ELSE [d EXCEPT !.pc = "updateRep"]

\* that.addSpot(...): Reviews.addReview is called
SagaInvoke ==
  /\ \E p \in Calls, title \in Titles, u \in Creators, label \in Labels :
       /\ calls[p].pc = "idle"
       /\ calls' = [calls EXCEPT ![p] = SagaCall(title, u, FloorNull, label, 2)]
  /\ UNCHANGED <<spots, reviews, tags, rep, nextSpotId, nextReviewId, ticks, faults, last>>

\* the callback of Reviews.addReview
SagaAddReview ==
  /\ \E p \in Calls, fault \in {"none", "addReview"} :
       LET c == calls[p]
           added == ReviewsAddReview(CallerId(c.user, "string"), c.rating, fault)
       IN /\ c.pc = "addReview"
          /\ IF ~added.err.ok
               THEN /\ calls' = [calls EXCEPT ![p] = Callback(c, errorHandler(added.err))]
                    /\ UNCHANGED <<reviews, nextReviewId>>
               ELSE /\ calls' = [calls EXCEPT ![p] =
                                   [c EXCEPT !.pc = "getTagByLabel", !.review = added.review]]
                    /\ reviews' = reviews \cup {added.review}
                    /\ nextReviewId' = nextReviewId + 1
  /\ UNCHANGED <<spots, tags, rep, nextSpotId, ticks, faults, last>>

\* the callback of Tags.getTagByLabel
SagaGetTagByLabel ==
  /\ \E p \in Calls, fault \in {"none", "getTag"} :
       LET c == calls[p]
           found == TagsGetTagByLabel(c.label, fault)
       IN /\ c.pc = "getTagByLabel"
          /\ calls' = [calls EXCEPT ![p] =
               IF found.err.ok THEN checkSpotEntered(c, found.tag, FALSE)
               ELSE IF HasStatus(found.err) THEN [c EXCEPT !.pc = "addTag", !.createdTag = TRUE]
               ELSE RemoveReview(c, UnknownError(found.err.msg), "removeReview")]
  /\ UNCHANGED <<spots, reviews, tags, rep, nextSpotId, nextReviewId, ticks, faults, last>>

\* the callback of Tags.addTag
SagaAddTag ==
  /\ \E p \in Calls, fault \in {"none", "addTag", "addTagUnknown"} :
       LET c == calls[p]
           newTag == TagsAddTag(c.label, fault)
       IN /\ c.pc = "addTag"
          /\ IF ~newTag.err.ok
               THEN /\ calls' = [calls EXCEPT ![p] =
                                   RemoveReview(c, errorHandler(newTag.err), "removeReview")]
                    /\ tags' = tags
               ELSE /\ calls' = [calls EXCEPT ![p] = checkSpotEntered(c, newTag.tag, TRUE)]
                    /\ tags' = tags \cup {newTag.tag.id}
  /\ UNCHANGED <<spots, reviews, rep, nextSpotId, nextReviewId, ticks, faults, last>>

\* the callback of Users.updateRep
SagaUpdateRep ==
  /\ \E p \in Calls, fault \in {"none", "updateRep"} :
       LET c == calls[p]
           updated == UsersUpdateRep(CallerId(c.user, "string"), fault)
       IN /\ c.pc = "updateRep"
          /\ IF ~updated.err.ok
               THEN /\ calls' = [calls EXCEPT ![p] =
                                   RemoveReview(c, errorHandler(updated.err), "removeIfInvalid")]
                    /\ rep' = rep
               ELSE /\ calls' = [calls EXCEPT ![p] = [c EXCEPT !.pc = "save"]]
                    /\ rep' = updated.rep
  /\ UNCHANGED <<spots, reviews, tags, nextSpotId, nextReviewId, ticks, faults, last>>

\* the callback of spot.save
SagaSave ==
  /\ \E p \in Calls, fault \in {"none", "save"} :
       LET c == calls[p]
           spot == newSpot(c.title, CallerId(c.user, "string"), Location(1, 1), c.floor,
                           c.tag, c.review)
           saved == spotSave(spot, fault)
       IN /\ c.pc = "save"
          /\ IF saved.failed
               THEN /\ calls' = [calls EXCEPT ![p] =
                         RemoveReview(c, IF saved.code = DUPLICATE_KEY
                                           THEN KnownError("duplicate title", BAD_REQUEST)
                                           ELSE UnknownError("save failed"),
                                      "removeIfInvalid")]
                    /\ UNCHANGED <<spots, nextSpotId>>
               ELSE /\ calls' = [calls EXCEPT ![p] = Callback(c, NoError)]
                    /\ spots' = spots \cup {spot}
                    /\ nextSpotId' = nextSpotId + 1
  /\ UNCHANGED <<reviews, tags, rep, nextReviewId, ticks, faults, last>>

\* the callback of reviewModel.remove, in addSpot and in removeIfInvalid
SagaReviewRemoved ==
  /\ \E p \in Calls, delFail \in {{}, {"review"}} :
       LET c == calls[p]
       IN /\ c.pc \in {"removeReview", "removeIfInvalid"}
          /\ reviews' = reviewModelRemove(reviews, c.review.id, delFail)
          /\ calls' = [calls EXCEPT ![p] = reviewRemoved(c)]
  /\ UNCHANGED <<spots, tags, rep, nextSpotId, nextReviewId, ticks, faults, last>>

\* the callback of tagModel.remove
SagaTagRemoved ==
  /\ \E p \in Calls, delFail \in {{}, {"tag"}} :
       LET c == calls[p]
       IN /\ c.pc = "removeTag"
          /\ tags' = tagModelRemove(tags, c.tag.id, delFail)
          /\ calls' = [calls EXCEPT ![p] = Callback(c, c.error)]
  /\ UNCHANGED <<spots, reviews, rep, nextSpotId, nextReviewId, ticks, faults, last>>

\* the callbacks of the collaborator and store calls
SagaStep ==
  \/ SagaAddReview \/ SagaGetTagByLabel \/ SagaAddTag \/ SagaUpdateRep
  \/ SagaSave \/ SagaReviewRemoved \/ SagaTagRemoved

NextSaga == SagaInvoke \/ SagaStep

\* every collaborator and store call eventually invokes its callback
SpecSaga == Init /\ [][NextSaga]_vars /\ WF_vars(SagaStep)

(***************************************************************************)
(* Properties.  What the properties read of a call that completed is in    *)
(* `last`; what a call would do in a state is the outcome operator of the   *)
(* operation, applied in that state.                                       *)
(***************************************************************************)
RECURSIVE SumRatings(_, _)
\* the sum of the ratings of the reviews a spot lists, from position i on
SumRatings(ids, i) ==
  IF i > Len(ids) THEN 0 ELSE ReviewById(ids[i]).rating + SumRatings(ids, i + 1)

\* v is the number  (sum of the ratings of the spot's reviews) / (their count)
IsMean(v, spot) ==
  /\ v.k = "num"
  /\ v.n * Len(spot.reviews) = SumRatings(spot.reviews, 1) * v.d

RECURSIVE ScoreSum(_, _)
\* the sum of reporterScore over a spot's reports, from position i on
ScoreSum(reports, i) ==
  IF i > Len(reports) THEN 0 ELSE reports[i].reporterScore + ScoreSum(reports, i + 1)

ReportedBy(spot, u) == \E i \in 1..Len(spot.reports) : spot.reports[i].reporter = u

AuthoredBy(spot, u) ==
  \E i \in 1..Len(spot.reviews) :
    spot.reviews[i] \in ReviewIds /\ ReviewById(spot.reviews[i]).creator = u

\* C1: after a successful addReviewToSpot call the spot's rating, the one
\* returned and the one stored, is the arithmetic mean of the ratings of
\* all the reviews then in the spot's reviews list, and is a number.
C1_RatingIsMean ==
  (last.op = "addReviewToSpot" /\ last.status = "OK") =>
    /\ last.spotId \in SpotIds
    /\ IsMean(SpotById(last.spotId).rating, SpotById(last.spotId))
    /\ IsMean(last.rating, SpotById(last.spotId))

\* C2: a deleteSpot call by the spot's creator on an existing spot deletes
\* the spot if and only if at most 86,400,000 ms have elapsed since the
\* spot's timestamp; after more than that the call is rejected with
\* Forbidden and the spot remains in the store.
C2_DeleteWithinADay ==
  (last.op = "deleteSpot" /\ last.step \in {"none", "tooOld"}) =>
    /\ (last.status = "OK" /\ last.spotId \notin SpotIds) <=> last.elapsed <= 86400000
    /\ last.elapsed > 86400000 => last.status = "Forbidden" /\ last.spotId \in SpotIds

\* C3: a deleteSpot call by a user who is not the spot's creator is rejected
\* with Forbidden and leaves the store's spots unchanged, whatever the age
\* of the spot; a deleteSpot call on an id that is not in the store returns
\* NotFound.
C3_DeleteByOtherRejected ==
  \A spotId \in CallSpotIds, u \in UserIds, form \in IdForms :
    LET o == deleteSpot(spotId, CallerId(u, form))
    IN /\ (spotId \in SpotIds /\ u # SpotById(spotId).creator) =>
            Status(o.err) = "Forbidden" /\ o.spots = spots
       /\ spotId \notin SpotIds => Status(o.err) = "NotFound" /\ o.spots = spots

\* a user other than the creator was refused the deletion of a spot that is
\* older than a day
C3_Witness ==
  /\ last.op = "deleteSpot"
  /\ last.step = "creator"
  /\ last.status = "Forbidden"
  /\ last.spotId \in SpotIds
  /\ Now - SpotById(last.spotId).timestamp > MILLISECONDS_IN_A_DAY

\* C4: when addSpot succeeds, the persisted spot has the rating of the
\* review this call created and a reviews list with exactly one element,
\* the id of that review.
C4_CreatedSpotSeeded ==
  (last.op = "addSpot" /\ last.status = "OK") =>
    /\ last.spotId \in SpotIds
    /\ last.reviewId \in ReviewIds
    /\ SpotById(last.spotId).rating = Num(ReviewById(last.reviewId).rating, 1)
    /\ SpotById(last.spotId).reviews = <<last.reviewId>>

\* a spot was created with a seed review rated 5
C4_Witness ==
  /\ last.op = "addSpot"
  /\ last.status = "OK"
  /\ last.spotId \in SpotIds
  /\ last.reviewId \in ReviewIds
  /\ ReviewById(last.reviewId).rating = 5

\* C5 as stated: when the tag lookup finds no tag and the creation of the
\* tag fails after the review was created, then on return that review no
\* longer exists, no spot has been persisted and the creator's reputation
\* is unchanged.
C5_TagCreationFailsReviewGone ==
  (last.op = "addSpot" /\ last.step = "addTag") =>
    /\ last.status # "OK"
    /\ last.reviewId \notin ReviewIds
    /\ ~last.persisted
    /\ ~last.repChanged

\* C5: when the tag lookup finds no tag and the creation of the tag fails
\* after the review was created, then on return no spot has been persisted,
\* the creator's reputation is unchanged, and that review no longer exists
\* provided the store carried out its removal: a removal that fails is not
\* reported and leaves the review.
C5_TagCreationFailsCompensated ==
  (last.op = "addSpot" /\ last.step = "addTag") =>
    /\ last.status # "OK"
    /\ "review" \notin last.delFail => last.reviewId \notin ReviewIds
    /\ ~last.persisted
    /\ ~last.repChanged

\* the creation of the tag failed, the removal of the review was carried out
C5_Witness ==
  /\ last.op = "addSpot"
  /\ last.step = "addTag"
  /\ last.reviewId # 0
  /\ last.delFail = {}
  /\ last.reviewId \notin ReviewIds

\* C6 as stated: when addSpot fails at the save with a duplicate title, it
\* returns a BadRequest error and on return the review this call created no
\* longer exists, a tag this call created no longer exists, and the tags
\* that existed before the call still exist.
C6_DuplicateTitleUndone ==
  (last.op = "addSpot" /\ last.step = "duplicate") =>
    /\ last.status = "BadRequest"
    /\ last.reviewId \notin ReviewIds
    /\ last.createdTag => last.tagId \notin tags
    /\ last.tagsKept

\* C6: when addSpot fails at the save with a duplicate title, it returns a
\* BadRequest error, the tags that existed before the call still exist, and
\* the review this call created and a tag this call created no longer
\* exist provided the store carried out their removals: a removal that
\* fails is not reported and leaves its document.
C6_DuplicateTitleCompensated ==
  (last.op = "addSpot" /\ last.step = "duplicate") =>
    /\ last.status = "BadRequest"
    /\ "review" \notin last.delFail => last.reviewId \notin ReviewIds
    /\ (last.createdTag /\ "tag" \notin last.delFail) => last.tagId \notin tags
    /\ last.tagsKept

\* a duplicate title was refused in a call that had created its tag; the
\* review and the tag of the call are gone
C6_Witness ==
  /\ last.op = "addSpot"
  /\ last.step = "duplicate"
  /\ last.createdTag
  /\ last.delFail = {}
  /\ last.tagId \notin tags
  /\ last.reviewId \notin ReviewIds

\* C7: an addReviewToSpot call by a user who already authored one of the
\* spot's reviews, or who is the spot's creator, is rejected with
\* Forbidden; it creates no review and leaves the stored spot, its rating
\* and its reviews, unchanged.
C7_SecondReviewRejected ==
  \A spot \in spots, u \in UserIds :
    (AuthoredBy(spot, u) \/ u = spot.creator) =>
      \A form \in IdForms, rating \in ReviewRatings, fault \in AddReviewFaults :
        LET o == addReviewToSpot(spot.id, CallerId(u, form), rating, fault, "stored")
        IN /\ Status(o.err) = "Forbidden"
           /\ o.reviewId = 0
           /\ o.reviews = reviews
           /\ o.spots = spots

\* a user who is not the creator was refused a second review
C7_Witness ==
  /\ last.op = "addReviewToSpot"
  /\ last.step = "alreadyReviewed"
  /\ last.status = "Forbidden"
  /\ last.spotId \in SpotIds
  /\ last.user # SpotById(last.spotId).creator
  /\ AuthoredBy(SpotById(last.spotId), last.user)

\* C8: a reportSpot call by an existing user who has not reported the spot,
\* with S the sum of reporterScore over the spot's reports, u the user's
\* reputation and r the number of the spot's reviews: when S + u > 10 + r
\* the spot is removed and no report is written; otherwise, S + u = 10 + r
\* included, the spot stays with the report {reporter, reporterScore: u}
\* appended and nothing else changed.
C8_ReportOrRemove ==
  \A spotId \in SpotIds, u \in Users, form \in IdForms :
    LET spot == SpotById(spotId)
        S == ScoreSum(spot.reports, 1)
        r == Len(spot.reviews)
        o == reportSpot(spotId, CallerId(u, form))
        entry == [reporter |-> u, reporterScore |-> rep[u]]
    IN ~ReportedBy(spot, u) =>
         /\ Status(o.err) = "OK"
         /\ IF S + rep[u] > 10 + r
              THEN o.spots = spots \ {spot}
              ELSE o.spots = (spots \ {spot}) \cup
                             {[spot EXCEPT !.reports = Append(spot.reports, entry)]}

\* a report that brought the score to exactly 10 + r was recorded
C8_Witness ==
  /\ last.op = "reportSpot"
  /\ last.step = "reported"
  /\ last.spotId \in SpotIds
  /\ ScoreSum(SpotById(last.spotId).reports, 1) = 10 + Len(SpotById(last.spotId).reviews)

\* C9: a reportSpot call by a user who is already a reporter of the spot is
\* rejected with Forbidden and changes no spot; and in every reachable
\* state each user is the reporter of at most one of a spot's reports.
C9_OneReportPerUser ==
  \A spot \in spots :
    /\ \A i, j \in 1..Len(spot.reports) :
         spot.reports[i].reporter = spot.reports[j].reporter => i = j
    /\ \A u \in UserIds, form \in IdForms :
         LET o == reportSpot(spot.id, CallerId(u, form))
         IN ReportedBy(spot, u) => Status(o.err) = "Forbidden" /\ o.spots = spots

\* a reporter of the spot was refused a second report
C9_Witness ==
  /\ last.op = "reportSpot"
  /\ last.step = "hasReported"
  /\ last.status = "Forbidden"
  /\ last.spotId \in SpotIds
  /\ Len(SpotById(last.spotId).reports) >= 1

\* C10: in every reachable state, every spot in the store has a sum of
\* reporterScore over its reports of at most 10 plus the number of its
\* reviews.
C10_ScoreWithinThreshold ==
  \A spot \in spots : ScoreSum(spot.reports, 1) <= 10 + Len(spot.reviews)

\* a spot with two reviews stands at exactly the threshold
C10_Witness ==
  \E spot \in spots :
    /\ Len(spot.reviews) = 2
    /\ Len(spot.reports) >= 1
    /\ ScoreSum(spot.reports, 1) = 10 + Len(spot.reviews)

\* the author of the i-th review a spot lists
AuthorOf(spot, i) == ReviewById(spot.reviews[i]).creator

\* C11: in every reachable state no two reviews in a spot's reviews list
\* have the same author, and the only review by the spot's creator is the
\* seed review, the first of the list.
C11_OneReviewPerAuthor ==
  \A spot \in spots :
    /\ \A i \in 1..Len(spot.reviews) : spot.reviews[i] \in ReviewIds
    /\ \A i, j \in 1..Len(spot.reviews) : AuthorOf(spot, i) = AuthorOf(spot, j) => i = j
    /\ \A i \in 1..Len(spot.reviews) : AuthorOf(spot, i) = spot.creator => i = 1

\* a spot lists its seed review and a review by another author
C11_Witness ==
  \E spot \in spots :
    /\ Len(spot.reviews) = 2
    /\ spot.reviews[2] \in ReviewIds
    /\ AuthorOf(spot, 1) = spot.creator
    /\ AuthorOf(spot, 2) # spot.creator

\* C12: getSpotsByLocation returns exactly the stored spots whose latitude
\* is strictly between minLatitude and maxLatitude and whose longitude is
\* strictly between minLongitude and maxLongitude; a spot with a coordinate
\* equal to one of the bounds is not returned.
C12_StrictlyInsideTheBox ==
  last.op = "getSpotsByLocation" =>
    /\ last.found \subseteq SpotIds
    /\ \A spot \in spots :
         spot.id \in last.found <=>
           /\ last.minLatitude < spot.location.latitude
           /\ spot.location.latitude < last.maxLatitude
           /\ last.minLongitude < spot.location.longitude
           /\ spot.location.longitude < last.maxLongitude
    /\ \A spot \in spots :
         (\/ spot.location.latitude \in {last.minLatitude, last.maxLatitude}
          \/ spot.location.longitude \in {last.minLongitude, last.maxLongitude})
           => spot.id \notin last.found

\* a query returned one spot and left out a spot on the upper latitude bound
C12_Witness ==
  /\ last.op = "getSpotsByLocation"
  /\ last.found # {}
  /\ \E spot \in spots :
       /\ spot.id \notin last.found
       /\ spot.location.latitude = last.maxLatitude
       /\ last.minLongitude < spot.location.longitude
       /\ spot.location.longitude < last.maxLongitude

\* a letter, a digit, white space or an apostrophe
TitleCharAsStated(c) ==
  c \in 65..90 \/ c \in 97..122 \/ c \in 48..57 \/ c \in {9, 10, 11, 12, 13, 32} \/ c = 39

TitleAsStated(title) ==
  /\ Len(title) >= 3
  /\ Len(title) <= 20
  /\ \A i \in 1..Len(title) : TitleCharAsStated(title[i])

\* C13: checkRep answers with the invalid-title message unless every
\* character of the title is a letter, a digit, white space or an
\* apostrophe and the title has 3 to 20 characters; a title with any other
\* character, such as _ ^ [ or ], is rejected.
C13_TitleRejectedUnlessAlphanumeric ==
  last.op = "checkRep" => (last.result = "InvalidTitle" <=> ~TitleAsStated(last.title))

\* the floor is null, is absent, or is 1 to 3 characters, each an uppercase
\* letter or a digit
FloorAsStated(floor) ==
  \/ floor.k \in {"null", "undefined"}
  \/ /\ Len(floor.s) \in 1..3
     /\ \A i \in 1..Len(floor.s) : floor.s[i] \in 65..90 \/ floor.s[i] \in 48..57

\* C14: for a valid title checkRep accepts the floor if and only if the
\* floor is null, is absent, or is 1 to 3 characters each an uppercase
\* letter or a digit; and addSpot with a null or an absent floor persists
\* the spot with floor "1".
C14_FloorOptional ==
  /\ \A floor \in FloorInputs : checkRep(TitleAbc, floor) = "null" <=> FloorAsStated(floor)
  /\ \A title \in WideTitles, floor \in {FloorNull, FloorUndefined} :
       LET o == addSpot(title, CallerId("u1", "string"), Location(1, 1), floor, "cafe", 2,
                        "none", {})
       IN (\A spot \in spots : spot.title # title) =>
            /\ Status(o.err) = "OK"
            /\ \E spot \in o.spots : spot.id = o.spotId /\ spot.floor = DefaultFloor

\* C15 as stated: when addSpot fails because the title or the floor is
\* invalid, or because the increment of the creator's reputation fails,
\* then on return the review this call created no longer exists, a tag this
\* call created no longer exists, no spot has been persisted, and on a
\* validation failure the reputation is untouched.
C15_ValidationFailureUndone ==
  (last.op = "addSpot" /\ last.step \in {"checkRep", "updateRep"}) =>
    /\ last.status # "OK"
    /\ last.reviewId \notin ReviewIds
    /\ last.createdTag => last.tagId \notin tags
    /\ ~last.persisted
    /\ last.step = "checkRep" => ~last.repChanged

\* C15: when addSpot fails because the title or the floor is invalid, or
\* because the increment of the creator's reputation fails, then on return
\* no spot has been persisted, on a validation failure the reputation is
\* untouched, and the review and a tag this call created no longer exist
\* provided the store carried out their removals: a removal that fails is
\* not reported and leaves its document.
C15_ValidationFailureCompensated ==
  (last.op = "addSpot" /\ last.step \in {"checkRep", "updateRep"}) =>
    /\ last.status # "OK"
    /\ "review" \notin last.delFail => last.reviewId \notin ReviewIds
    /\ (last.createdTag /\ "tag" \notin last.delFail) => last.tagId \notin tags
    /\ ~last.persisted
    /\ last.step = "checkRep" => ~last.repChanged

\* an invalid title or floor was refused in a call that had created its
\* tag; the review and the tag of the call are gone
C15_Witness ==
  /\ last.op = "addSpot"
  /\ last.step = "checkRep"
  /\ last.status = "BadRequest"
  /\ last.createdTag
  /\ last.delFail = {}
  /\ last.tagId \notin tags
  /\ last.reviewId # 0
  /\ last.reviewId \notin ReviewIds

\* the tag of the call was created by the call
TagCreatedByCall == last.createdTag /\ last.step # "addTag"

Before(log, a, b) ==
  \A i \in 1..Len(log) : log[i] = b => \E j \in 1..(i - 1) : log[j] = a

\* C16: on every compensation path of addSpot the removal of the review is
\* issued and has returned before a removal of the tag is issued; a removal
\* of the tag is issued only when this call created the tag; a tag the
\* lookup found is never removed.
C16_ReviewRemovedBeforeTag ==
  last.op = "addSpot" =>
    /\ (last.status # "OK" /\ last.reviewId # 0) =>
         \E i \in 1..Len(last.log) : last.log[i] = "removeReview"
    /\ Before(last.log, "removeReview", "reviewRemoveReturned")
    /\ Before(last.log, "reviewRemoveReturned", "removeTag")
    /\ (\E i \in 1..Len(last.log) : last.log[i] = "removeTag") => TagCreatedByCall
    /\ last.tagsKept

\* a compensation removed the review and then the tag the call had created
C16_Witness ==
  /\ last.op = "addSpot"
  /\ last.status # "OK"
  /\ TagCreatedByCall
  /\ last.log = <<"removeReview", "reviewRemoveReturned", "removeTag", "tagRemoveReturned">>

\* the errors of the steps of addSpot that start a compensation
TriggeringErrors ==
  {<<"checkRep", "InvalidTitle", "BadRequest">>,
   <<"checkRep", "InvalidFloor", "BadRequest">>,
   <<"updateRep", "no such user", "NotFound">>,
   <<"updateRep", "updateRep failed", "Unknown">>,
   <<"duplicate", "duplicate title", "BadRequest">>,
   <<"save", "save failed", "Unknown">>,
   <<"addTag", "invalid tag", "BadRequest">>,
   <<"addTag", "addTag failed", "Unknown">>,
   <<"getTag", "getTagByLabel failed", "Unknown">>}

\* C17: when a step of addSpot fails and the compensation runs, the caller
\* receives the error of that step, whether the removals of the review and
\* of the tag succeed or fail; a removal that fails is not reported and
\* prevents neither the removal that follows nor the callback.
C17_TriggeringErrorDelivered ==
  (last.op = "addSpot" /\ last.log # <<>>) =>
    /\ <<last.step, last.msg, last.status>> \in TriggeringErrors
    /\ last.log = IF TagCreatedByCall
                    THEN <<"removeReview", "reviewRemoveReturned", "removeTag",
                           "tagRemoveReturned">>
                    ELSE <<"removeReview", "reviewRemoveReturned">>

\* both removals failed; the caller received the duplicate-title error and
\* the removal of the tag was issued all the same
C17_Witness ==
  /\ last.op = "addSpot"
  /\ last.delFail = {"review", "tag"}
  /\ last.step = "duplicate"
  /\ last.msg = "duplicate title"
  /\ last.status = "BadRequest"
  /\ \E i \in 1..Len(last.log) : last.log[i] = "tagRemoveReturned"

\* C18: when addReviewToSpot has created the review and the update of the
\* spot fails, the call returns an error without status, the review it
\* created still exists, and the stored spot, its reviews and its rating,
\* is as before the call.
C18_ReviewKeptWhenUpdateFails ==
  \A spot \in spots, u \in Users, form \in IdForms, rating \in ReviewRatings,
     fault \in AddReviewFaults, cast \in NumberCasts :
    LET o == addReviewToSpot(spot.id, CallerId(u, form), rating, fault, cast)
    IN o.step = "update" =>
         /\ Status(o.err) = "Unknown"
         /\ \E r \in o.reviews : r.id = o.reviewId /\ r.creator = u /\ r \notin reviews
         /\ o.spots = spots

\* the update of the spot failed; the review of the call exists and the
\* spot does not list it
C18_Witness ==
  /\ last.op = "addReviewToSpot"
  /\ last.step = "update"
  /\ last.status = "Unknown"
  /\ last.reviewId \in ReviewIds
  /\ last.spotId \in SpotIds
  /\ \A i \in 1..Len(SpotById(last.spotId).reviews) :
       SpotById(last.spotId).reviews[i] # last.reviewId

\* the call that completes in this step removed a spot
SpotRemoved ==
  \/ last'.op = "deleteSpot" /\ last'.step = "none"
  \/ last'.op = "reportSpot" /\ last'.step = "removed"

\* C19: a call that removes a spot, a successful deleteSpot or a reportSpot
\* over the threshold, removes the spot document only: every review and
\* every tag that existed before the call, the spot's own included, exists
\* afterwards, and no user's reputation changes.
C19_OnlyTheSpotRemoved ==
  [][SpotRemoved =>
       /\ last'.status = "OK"
       /\ last'.spotId \in SpotIds
       /\ spots' = {s \in spots : s.id # last'.spotId}
       /\ reviews' = reviews
       /\ \A i \in 1..Len(SpotById(last'.spotId).reviews) :
            \E r \in reviews' : r.id = SpotById(last'.spotId).reviews[i]
       /\ tags' = tags
       /\ SpotById(last'.spotId).tag \in tags'
       /\ rep' = rep]_vars

\* a report over the threshold removed a spot; its two reviews exist
C19_Witness ==
  /\ last.op = "reportSpot"
  /\ last.step = "removed"
  /\ last.spotId \notin SpotIds
  /\ Cardinality(reviews) = 2
  /\ tags # {}

\* C20: when two calls of addReviewToSpot for the same spot and the same
\* author have both read the spot before either wrote to it, both pass the
\* already-reviewed check; each stores its own Review document; each ends
\* with success unless the store refuses the rating it writes; and once both
\* have ended, two Review documents of that author exist, of which the spot
\* lists only that of the call that wrote last.
Passed(c) == c.pc \in {"checked", "added", "done"} /\ c.spot.id # 0

SameSpotAndAuthor(c, d) ==
  /\ Passed(c) /\ Passed(d)
  /\ c.spotId = d.spotId /\ c.user = d.user
  /\ c.spot.reviews = d.spot.reviews

C20_OverlappingReviewsBothStored ==
  \A p \in Calls : \A q \in Calls \ {p} :
    LET c == calls[p]
        d == calls[q]
        seen == [i \in 1..Len(c.spot.reviews) |-> c.spot.reviews[i].id]
    IN SameSpotAndAuthor(c, d) =>
         /\ c.pc \in {"added", "done"} => c.review \in reviews /\ c.review.creator = c.user
         /\ c.pc = "done" => (c.status = "OK" <=> c.cast # "refused")
         /\ (c.pc = "done" /\ d.pc = "done") =>
              /\ c.review.id # d.review.id
              /\ Cardinality({r \in reviews : r.creator = c.user}) >= 2
              /\ (c.status = "OK" \/ d.status = "OK") =>
                   SpotById(c.spotId).reviews \in {Append(seen, c.review.id),
                                                   Append(seen, d.review.id)}

C20_Witness ==
  \E p \in Calls : \E q \in Calls \ {p} :
    /\ SameSpotAndAuthor(calls[p], calls[q])
    /\ calls[p].pc = "done" /\ calls[q].pc = "done"
    /\ calls[p].status = "OK" /\ calls[q].status = "OK"
    /\ {calls[p].review, calls[q].review} \subseteq reviews
    /\ calls[p].review.id # calls[q].review.id

\* C21: two reportSpot calls by different users for the same spot that both
\* read the spot before either wrote to it each decide on what they read.
\* When for both the sum they read plus the caller's reputation is within
\* 10 plus the number of reviews, both write their report, and where the
\* store applies each save as a push the spot stays in the store with both
\* reports, so with the sum of what was read and both reputations.  When
\* for both it is above, both issue the remove, both end with success and
\* the spot is gone.
ReportsOverlap(c, d) ==
  /\ c.pc = "done" /\ d.pc = "done"
  /\ c.step \in {"removed", "reported"} /\ d.step \in {"removed", "reported"}
  /\ c.spotId = d.spotId /\ c.user # d.user
  /\ c.spot.reports = d.spot.reports

C21_OverlappingReportsBothApplied ==
  \A p \in Calls : \A q \in Calls \ {p} :
    LET c == calls[p]
        d == calls[q]
        S == ScoreSum(c.spot.reports, 1)
        T == 10 + Len(c.spot.reviews)
    IN ReportsOverlap(c, d) =>
         /\ c.step = "reported" <=> S + c.rep <= T
         /\ (c.step = "removed" /\ d.step = "removed") =>
              c.spotId \notin SpotIds /\ c.status = "OK" /\ d.status = "OK"
         /\ (c.step = "reported" /\ d.step = "reported" /\ c.mode = "push" /\ d.mode = "push") =>
              /\ c.status = "OK" /\ d.status = "OK"
              /\ c.spotId \in SpotIds
              /\ SpotById(c.spotId).reports \in
                   {c.spot.reports \o <<reportEntry(c), reportEntry(d)>>,
                    c.spot.reports \o <<reportEntry(d), reportEntry(c)>>}
              /\ ScoreSum(SpotById(c.spotId).reports, 1) = S + c.rep + d.rep

\* a spot is in the store with a sum above 10 plus its number of reviews,
\* and two calls by different users that read the same spot have both
\* issued its remove
C21_Witness ==
  /\ \E spot \in spots : ScoreSum(spot.reports, 1) > 10 + Len(spot.reviews)
  /\ \E p \in Calls : \E q \in Calls \ {p} :
       /\ ReportsOverlap(calls[p], calls[q])
       /\ calls[p].step = "removed" /\ calls[q].step = "removed"
       /\ calls[p].status = "OK" /\ calls[q].status = "OK"

\* C22: whenever addSpot returns an error, a duplicate title or another
\* failure of the spot's save after the reputation was incremented
\* included, the creator's reputation is what it was before the call; the
\* reputation is one higher than before only when a spot was persisted.
C22_ReputationAllOrNothing ==
  last.op = "addSpot" =>
    /\ last.status # "OK" => ~last.repChanged
    /\ last.repChanged => last.persisted /\ last.status = "OK"

\* C23: when two addReviewToSpot calls by two different authors for the
\* same spot have both ended with success, the spot's stored reviews list
\* contains the reviews of both calls and the stored rating is the mean of
\* the ratings of the reviews it lists.
BothSucceeded(c, d) ==
  /\ c.pc = "done" /\ d.pc = "done"
  /\ c.status = "OK" /\ d.status = "OK"
  /\ c.spotId = d.spotId /\ c.user # d.user

C23_NoReviewLost ==
  \A p \in Calls : \A q \in Calls \ {p} :
    LET c == calls[p]
        d == calls[q]
        spot == SpotById(c.spotId)
        listed == {spot.reviews[i] : i \in 1..Len(spot.reviews)}
    IN BothSucceeded(c, d) =>
         /\ {c.review.id, d.review.id} \subseteq listed
         /\ IsMean(spot.rating, spot)

\* C24: every addSpot invocation eventually invokes the caller's callback,
\* and never more than once: on success, when Reviews.addReview fails, and
\* on each path that removes the review or the review and the tag.
C24_CallbackExactlyOnce ==
  /\ [](\A p \in Calls : calls[p].pc # "idle" =>
          /\ calls[p].callbacks <= 1
          /\ calls[p].pc = "done" <=> calls[p].callbacks = 1)
  /\ \A p \in Calls :
       (calls[p].pc # "idle") ~> (calls[p].pc = "done" /\ calls[p].callbacks = 1)

\* one call returned its spot; the other, which created its tag, returned
\* an error after both removes
C24_Witness ==
  \E p \in Calls : \E q \in Calls \ {p} :
    /\ calls[p].pc = "done" /\ calls[p].status = "OK" /\ calls[p].callbacks = 1
    /\ calls[q].pc = "done" /\ calls[q].status = "BadRequest" /\ calls[q].callbacks = 1
    /\ calls[q].createdTag /\ calls[q].review.id # 0
    /\ calls[q].title = calls[p].title

====
